---- MODULE Spec2Model ----
(***************************************************************************)
(* Lost & Found tracker (LP/app.py): a Flask application whose state is    *)
(* three JSON files (items, staff, users) and a cookie session.  Every     *)
(* handler is one action; the concurrent specification SpecConc splits the *)
(* item-store handlers at the load / save boundary.                        *)
(***************************************************************************)
EXTENDS Integers, Sequences, FiniteSets, TLC

VARIABLES files, session, req, resp, thr

vars == <<files, session, req, resp, thr>>

(* ---------------------------------------------------------------- bounds *)
MaxItems == 2
MaxStaff == 1

(* ------------------------------------------------------------- constants *)
ITEMS_FILE == "items.json"
STAFF_FILE == "staff.json"
USERS_FILE == "users.json"
ALLOWED_EXTENSIONS == {"png", "jpg", "jpeg", "gif"}

(* ------------------------------------------------------- python helpers *)
\* A dict with no keys (an empty session, an absent form).
EmptyDict == << >>

\* d[k] = v on a dict: the key is added when absent.
DictSet(d, k, v) == [x \in (DOMAIN d) \cup {k} |-> IF x = k THEN v ELSE d[x]]

\* d.get(k, default)
DictGet(d, k, default) == IF k \in DOMAIN d THEN d[k] ELSE default

\* The value Python's None takes where a string is expected.
PyNone == "<None>"

\* Clock instants per minute: strftime("%B %d, %Y %I:%M %p") drops what is
\* below the minute, isoformat() keeps the instant.
TicksPerMinute == 2
isoformat(t) == t
strftime_minute(t) == t \div TicksPerMinute

(* ---------------------------------------------------------------- inputs *)
\* File names a browser may upload ("" is a request without a file part):
\* "my cat.PNG" and "notes.txt".

\* filename.rsplit('.', 1)[1]
rsplit_ext(filename) ==
    CASE filename = "my cat.PNG" -> "PNG"
      [] filename = "notes.txt"  -> "txt"
      [] OTHER                   -> ""

HasDot(filename) == filename \in {"my cat.PNG", "notes.txt"}

lower(s) ==
    CASE s = "PNG" -> "png"
      [] s = "Admin" -> "admin"
      [] s = "Staff" -> "staff"
      [] OTHER     -> s

\* werkzeug.utils.secure_filename: spaces become underscores.
secure_filename(filename) ==
    CASE filename = "my cat.PNG" -> "my_cat.PNG"
      [] OTHER                   -> filename

\* Submitted requests: the form, the uploaded file name and the instant
\* datetime.now() returns while the request is handled.
AddRequests ==
    { [form |-> [name |-> "Umbrella", description |-> "black", category |-> "Accessories"],
       file |-> "notes.txt", now |-> 0],
      [form |-> [name |-> "ID card", description |-> "", category |-> ""],
       file |-> "my cat.PNG", now |-> 1] }

UpdateRequests ==
    { [form |-> [name |-> "Umbrella", description |-> "blue", category |-> "Misc"],
       file |-> "my cat.PNG"] }

ClaimRequests ==
    { [form |-> [staff |-> "Ana", claimer_name |-> "Ben", college |-> "CAS",
                 course |-> "BSCS", year_section |-> "1-A"],
       file |-> "my cat.PNG", now |-> 1],
      [form |-> [staff |-> "Cora", claimer_name |-> "Dan", college |-> "COE",
                 course |-> "BSCE", year_section |-> "2-B"],
       file |-> "", now |-> 0] }

StaffRequests ==
    { [form |-> [name |-> "Ana", role |-> "Admin"], now |-> 1] }

\* ?role= values of GET /staff.
RoleFilters == {"", "admin"}

\* Student identifiers typed into the login form.
StudentIds == {"1001", "1002", "9999"}

ItemIds == 1 .. (MaxItems + 1)

\* str() of a JSON value: a number prints as its digits, a string is itself,
\* a missing key (None) prints as "None".
str(v) ==
    CASE v.t = "int"  -> (CASE v.v = 1001 -> "1001" [] v.v = 1002 -> "1002" [] OTHER -> "?")
      [] v.t = "str"  -> v.v
      [] OTHER        -> "None"

\* users.json as shipped to a deployment: one Admin whose student_id is a JSON
\* number, one user without a role whose student_id is a JSON string.
UsersData ==
    << [id |-> 1, student_id |-> [t |-> "int", v |-> 1001], role |-> "Admin"],
       [id |-> 2, student_id |-> [t |-> "str", v |-> "1002"]] >>

(* ------------------------------------------------------------ json files *)
File(exists, data) == [exists |-> exists, data |-> data]

\* Mutant of save_json: the file opened in append mode, the new list written
\* after the old one.
save_json_Append(file, data) ==
    [files EXCEPT ![file] = File(TRUE, files[file].data \o data)]

load_json(file) == IF files[file].exists THEN files[file].data ELSE << >>

save_json(file, data) == [files EXCEPT ![file] = File(TRUE, data)]

load_staff == load_json(STAFF_FILE)
save_staff(staff_list) == save_json(STAFF_FILE, staff_list)
load_items == load_json(ITEMS_FILE)
save_items(items) == save_json(ITEMS_FILE, items)

allowed_file(filename) ==
    HasDot(filename) /\ lower(rsplit_ext(filename)) \in ALLOWED_EXTENSIONS

(* --------------------------------------------------------------- session *)
\* session is the cookie session restricted to the keys the handlers read and
\* write, "user_id" and "user_role"; the messages flash() queues are carried
\* by the response that shows them.  Forms are complete (a missing field is a
\* 400 raised by request.form[...] before any handler state changes), and a
\* method a route does not accept is answered 405 by the framework.
LoggedIn == "user_id" \in DOMAIN session

is_admin == DictGet(session, "user_role", PyNone) = "Admin"

(* ------------------------------------------------- requests and responses *)
Request(route, method, item_id, form) ==
    [route |-> route, method |-> method, item_id |-> item_id, form |-> form]

redirect(endpoint, flashed) ==
    [kind |-> "redirect", target |-> endpoint, code |-> 302, flash |-> flashed,
     data |-> EmptyDict]

render_template(template, flashed, data) ==
    [kind |-> "render", target |-> template, code |-> 200, flash |-> flashed,
     data |-> data]

PlainText(body, code) ==
    [kind |-> "text", target |-> body, code |-> code, flash |-> "",
     data |-> EmptyDict]

\* An unhandled exception in a handler.
ServerError(exc) ==
    [kind |-> "error", target |-> exc, code |-> 500, flash |-> "",
     data |-> EmptyDict]

\* Request threads of the server; the sequential specification leaves them idle.
Threads == {1, 2}

Idle == [pc |-> "idle"]

(* ------------------------------------------------------------------ Init *)
Init ==
    /\ \E ie \in BOOLEAN, ue \in BOOLEAN :
          files = [f \in {ITEMS_FILE, STAFF_FILE, USERS_FILE} |->
                     CASE f = ITEMS_FILE -> File(ie, << >>)
                       [] f = STAFF_FILE -> File(FALSE, << >>)
                       [] OTHER          -> File(ue, IF ue THEN UsersData ELSE << >>)]
    /\ session = EmptyDict
    /\ req = Request("", "", 0, EmptyDict)
    /\ resp = PlainText("", 0)
    /\ thr = [t \in Threads |-> Idle]

(* ----------------------------------------------------------------- /staff *)
staff(role) ==
    /\ req' = Request("/staff", "GET", 0, EmptyDict)
    /\ resp' = IF ~LoggedIn THEN redirect("login", "")
               ELSE LET staff_list == load_staff
                        filtered == IF role # ""
                                    THEN SelectSeq(staff_list,
                                           LAMBDA s : lower(DictGet(s, "role", "")) = lower(role))
                                    ELSE staff_list
                    IN render_template("staff.html", "", [staff |-> filtered])
    /\ UNCHANGED <<files, session, thr>>

add_staff(method, form, now) ==
    /\ req' = Request("/staff/add", method, 0, IF method = "POST" THEN form ELSE EmptyDict)
    /\ IF ~LoggedIn
       THEN resp' = redirect("login", "") /\ UNCHANGED files
       ELSE IF method = "POST"
       THEN LET staff_list == load_staff
                new_staff == [id |-> Len(staff_list) + 1, name |-> form.name,
                              role |-> form.role, date_added |-> isoformat(now)]
            IN /\ Len(staff_list) < MaxStaff
               /\ files' = save_staff(Append(staff_list, new_staff))
               /\ resp' = redirect("staff", "")
       ELSE resp' = render_template("add_staff.html", "", EmptyDict) /\ UNCHANGED files
    /\ UNCHANGED <<session, thr>>

(* ------------------------------------------------------------------ items *)
\* Mutant of FindItem: the identifier taken for a position in the list.
FindItem_ByPosition(items, item_id) ==
    IF item_id \in DOMAIN items THEN item_id ELSE 0

\* next((i for i in items if i["id"] == item_id), None): the position of the
\* first record with that id, 0 for None.
FindItem(items, item_id) ==
    LET hits == {i \in DOMAIN items : items[i]["id"] = item_id}
    IN IF hits = {} THEN 0 ELSE CHOOSE i \in hits : \A j \in hits : i <= j

\* The record add_item builds.
NewItem(items, form, file, now) ==
    [id |-> Len(items) + 1,
     name |-> form.name,
     description |-> form.description,
     category |-> form.category,
     date_found |-> isoformat(now),
     status |-> "Unclaimed",
     assisting_staff |-> "",
     image |-> IF file # "" /\ allowed_file(file) THEN secure_filename(file) ELSE ""]

\* Mutant of UpdatedItem: the record is rebuilt as add_item builds it, status
\* included.
UpdatedItem_ResetsStatus(item, form, file) ==
    DictSet(DictSet(DictSet(DictSet(item, "name", form.name),
                            "description", form.description),
                    "category", form.category),
            "status", "Unclaimed")

\* The assignments of update_item's POST branch.
UpdatedItem(item, form, file) ==
    LET named == DictSet(DictSet(DictSet(item, "name", form.name),
                                 "description", form.description),
                         "category", form.category)
    IN IF file # "" /\ allowed_file(file)
       THEN DictSet(named, "image", secure_filename(file))
       ELSE named

\* The assignments of claim_item's POST branch.
ClaimedItem(item, form, file, now) ==
    LET s1 == DictSet(item, "status", "Claimed")
        s2 == DictSet(s1, "assisting_staff", form.staff)
        s3 == DictSet(s2, "claimer_name", form.claimer_name)
        s4 == DictSet(s3, "college", form.college)
        s5 == DictSet(s4, "course", form.course)
        s6 == DictSet(s5, "year_section", form.year_section)
        s7 == DictSet(s6, "claimed_at", strftime_minute(now))
    IN IF file # "" /\ allowed_file(file)
       THEN DictSet(DictSet(s7, "proof_image", <<now, secure_filename(file)>>),
                    "proof_uploaded_at", isoformat(now))
       ELSE s7

\* [i for i in items if i["id"] != item_id]
DeleteItems(items, item_id) == SelectSeq(items, LAMBDA i : i["id"] # item_id)

\* The list a handler holds in memory when it reaches save_items.
AddedItems(items, r) == Append(items, NewItem(items, r.form, r.file, r.now))
UpdatedItems(items, item_id, r) ==
    [items EXCEPT ![FindItem(items, item_id)] = UpdatedItem(@, r.form, r.file)]
ClaimedItems(items, item_id, r) ==
    [items EXCEPT ![FindItem(items, item_id)] = ClaimedItem(@, r.form, r.file, r.now)]

\* The q and category arguments only select which records are displayed.
home ==
    /\ req' = Request("/", "GET", 0, EmptyDict)
    /\ resp' = IF ~LoggedIn THEN redirect("login", "")
               ELSE render_template("index.html", "", [items |-> load_items])
    /\ UNCHANGED <<files, session, thr>>

add_item(method, r) ==
    /\ req' = Request("/add", method, 0, IF method = "POST" THEN r.form ELSE EmptyDict)
    /\ IF ~LoggedIn
       THEN resp' = redirect("login", "") /\ UNCHANGED files
       ELSE IF method = "POST"
       THEN LET items == load_items
            IN /\ Len(items) < MaxItems
               /\ files' = save_items(AddedItems(items, r))
               /\ resp' = redirect("home", "")
       ELSE resp' = render_template("add_item.html", "", EmptyDict) /\ UNCHANGED files
    /\ UNCHANGED <<session, thr>>

update_item(method, item_id, r) ==
    /\ req' = Request("/update", method, item_id, IF method = "POST" THEN r.form ELSE EmptyDict)
    /\ IF ~LoggedIn
       THEN resp' = redirect("login", "") /\ UNCHANGED files
       ELSE LET items == load_items
                i == FindItem(items, item_id)
            IN IF i = 0
               THEN resp' = PlainText("Item not found", 404) /\ UNCHANGED files
               ELSE IF method = "POST"
               THEN /\ files' = save_items(UpdatedItems(items, item_id, r))
                    /\ resp' = redirect("home", "Item updated successfully!")
               ELSE /\ resp' = render_template("update_item.html", "", [item |-> items[i]])
                    /\ UNCHANGED files
    /\ UNCHANGED <<session, thr>>

claim_item(method, item_id, r) ==
    /\ req' = Request("/claim", method, item_id, IF method = "POST" THEN r.form ELSE EmptyDict)
    /\ IF ~LoggedIn
       THEN resp' = redirect("login", "") /\ UNCHANGED files
       ELSE LET items == load_items
                staff_list == load_staff
                i == FindItem(items, item_id)
            IN IF i = 0
               THEN resp' = PlainText("Item not found", 404) /\ UNCHANGED files
               ELSE IF method = "POST"
               THEN /\ files' = save_items(ClaimedItems(items, item_id, r))
                    /\ resp' = redirect("home", "")
               ELSE /\ resp' = render_template("claim_item.html", "",
                                   [item |-> items[i], staff_list |-> staff_list])
                    /\ UNCHANGED files
    /\ UNCHANGED <<session, thr>>

delete_item(item_id) ==
    /\ req' = Request("/delete", "GET", item_id, EmptyDict)
    /\ IF ~LoggedIn
       THEN resp' = redirect("login", "") /\ UNCHANGED files
       ELSE /\ files' = save_items(DeleteItems(load_items, item_id))
            /\ resp' = redirect("home", "")
    /\ UNCHANGED <<session, thr>>

(* ------------------------------------------------------------------ login *)
\* Mutant of MatchUser: when the loop falls through, the loop variable still
\* holds the last user and that user is logged in.
MatchUser_FallsBackToLast(users, student_id) ==
    LET hits == {i \in DOMAIN users :
                   str(DictGet(users[i], "student_id", [t |-> "none"])) = student_id}
    IN IF hits = {} THEN Len(users) ELSE CHOOSE i \in hits : \A j \in hits : i <= j

\* The first user of the for loop whose str(user.get("student_id")) equals the
\* submitted student_id; 0 when the loop falls through.
MatchUser(users, student_id) ==
    LET hits == {i \in DOMAIN users :
                   str(DictGet(users[i], "student_id", [t |-> "none"])) = student_id}
    IN IF hits = {} THEN 0 ELSE CHOOSE i \in hits : \A j \in hits : i <= j

\* session["user_id"] = user["id"]; session["user_role"] = user.get("role", "Staff")
LoginSession(s, user) ==
    DictSet(DictSet(s, "user_id", user["id"]), "user_role", DictGet(user, "role", "Staff"))

\* Mutant of session_clear: only the user identifier is popped.
session_clear_KeepsRole(s) == [k \in (DOMAIN s) \ {"user_id"} |-> s[k]]

\* session.clear()
session_clear(s) == EmptyDict

login(method, student_id) ==
    /\ req' = Request("/login", method, 0,
                      IF method = "POST" THEN [student_id |-> student_id] ELSE EmptyDict)
    /\ IF method = "POST"
       THEN LET users == load_json(USERS_FILE)
                u == MatchUser(users, student_id)
            IN IF u # 0
               THEN /\ session' = LoginSession(session, users[u])
                    /\ resp' = redirect("home", "Login successful!")
               ELSE /\ resp' = render_template("login.html", "Student not found!", EmptyDict)
                    /\ UNCHANGED session
       ELSE resp' = render_template("login.html", "", EmptyDict) /\ UNCHANGED session
    /\ UNCHANGED <<files, thr>>

register(method) ==
    /\ req' = Request("/register", method, 0, EmptyDict)
    /\ resp' = PlainText("Registration is disabled. Please contact admin to add users.", 403)
    /\ UNCHANGED <<files, session, thr>>

logout ==
    /\ req' = Request("/logout", "GET", 0, EmptyDict)
    /\ session' = session_clear(session)
    /\ resp' = redirect("login", "You have been logged out.")
    /\ UNCHANGED <<files, thr>>

(* ------------------------------------------------------------------ admin *)
\* Mutant of admin_required: the decorator checks for a login, not for the role.
admin_required_LoginOnly(response) ==
    IF ~LoggedIn THEN redirect("home", "Admin access required.") ELSE response

\* The decorator: the wrapped handler's response only for an admin session.
admin_required(response) ==
    IF ~is_admin THEN redirect("home", "Admin access required.") ELSE response

\* len([i for i in items if i["status"] == status])
CountStatus(items, status) ==
    Cardinality({i \in DOMAIN items : items[i]["status"] = status})

Stats(items, staff_list, users) ==
    [total_items |-> Len(items),
     claimed_items |-> CountStatus(items, "Claimed"),
     unclaimed_items |-> CountStatus(items, "Unclaimed"),
     total_staff |-> Len(staff_list),
     total_users |-> Len(users),
     items_by_category |->
        [c \in {DictGet(items[i], "category", "Uncategorized") : i \in DOMAIN items} |->
            Cardinality({i \in DOMAIN items :
                           DictGet(items[i], "category", "Uncategorized") = c})]]

admin_panel ==
    /\ req' = Request("/admin", "GET", 0, EmptyDict)
    /\ resp' = admin_required(
                 IF ~LoggedIn THEN redirect("login", "")
                 ELSE render_template("admin_panel.html", "",
                        [stats |-> Stats(load_items, load_staff, load_json(USERS_FILE))]))
    /\ UNCHANGED <<files, session, thr>>

\* open("items.json") raises when the file does not exist; no session check.
view_items ==
    /\ req' = Request("/admin/items", "GET", 0, EmptyDict)
    /\ resp' = IF files[ITEMS_FILE].exists
               THEN render_template("items.html", "", [items |-> files[ITEMS_FILE].data])
               ELSE ServerError("FileNotFoundError")
    /\ UNCHANGED <<files, session, thr>>

(* ------------------------------------------------------------------- Next *)
Next ==
    \/ home
    \/ \E m \in {"GET", "POST"}, r \in AddRequests : add_item(m, r)
    \/ \E m \in {"GET", "POST"}, k \in ItemIds, r \in UpdateRequests : update_item(m, k, r)
    \/ \E m \in {"GET", "POST"}, k \in ItemIds, r \in ClaimRequests : claim_item(m, k, r)
    \/ \E k \in ItemIds : delete_item(k)
    \/ \E role \in RoleFilters : staff(role)
    \/ \E m \in {"GET", "POST"}, r \in StaffRequests : add_staff(m, r.form, r.now)
    \/ \E m \in {"GET", "POST"}, sid \in StudentIds : login(m, sid)
    \/ \E m \in {"GET", "POST"} : register(m)
    \/ logout
    \/ admin_panel
    \/ view_items

Spec == Init /\ [][Next]_vars

(* ------------------------------------------------------ concurrent requests *)
\* Two request threads of the development server.  A mutating item handler
\* runs from its session check to the list it is about to save in one step
\* (Begin*), and save_items is a second step (Finish); nothing locks the file
\* in between.

\* save_items calls finished so far.
Saves == Cardinality({t \in Threads : thr[t].pc = "done" /\ thr[t].saved})

\* The list the handler of an item request holds when it reaches save_items.
Mutation(op, items, item_id, r) ==
    CASE op = "add"    -> AddedItems(items, r)
      [] op = "update" -> UpdatedItems(items, item_id, r)
      [] op = "claim"  -> ClaimedItems(items, item_id, r)
      [] OTHER         -> DeleteItems(items, item_id)

Loaded(op, item_id, r, items) ==
    [pc |-> "loaded", op |-> op, item_id |-> item_id, r |-> r, snapshot |-> items,
     pending |-> Mutation(op, items, item_id, r), loadedAfter |-> Saves]

\* A handler that returned without saving.
Returned(op, item_id, response) ==
    [pc |-> "done", op |-> op, item_id |-> item_id, saved |-> FALSE, resp |-> response]

Begin(t, op, item_id, r) ==
    /\ thr[t].pc = "idle"
    /\ LET items == load_items
       IN thr' = [thr EXCEPT ![t] =
                    IF ~LoggedIn THEN Returned(op, item_id, redirect("login", ""))
                    ELSE IF op \in {"update", "claim"} /\ FindItem(items, item_id) = 0
                    THEN Returned(op, item_id, PlainText("Item not found", 404))
                    ELSE Loaded(op, item_id, r, items)]
    /\ UNCHANGED <<files, session, req, resp>>

BeginAdd(t, r) ==
    /\ Len(load_items) < MaxItems
    /\ Begin(t, "add", 0, r)

BeginUpdate(t, item_id, r) == Begin(t, "update", item_id, r)

BeginClaim(t, item_id, r) == Begin(t, "claim", item_id, r)

BeginDelete(t, item_id) == Begin(t, "delete", item_id, EmptyDict)

Finish(t) ==
    /\ thr[t].pc = "loaded"
    /\ files' = save_items(thr[t].pending)
    /\ thr' = [thr EXCEPT ![t] =
                 [pc |-> "done", op |-> @.op, item_id |-> @.item_id, r |-> @.r,
                  snapshot |-> @.snapshot, pending |-> @.pending,
                  loadedAfter |-> @.loadedAfter, saved |-> TRUE, savedAs |-> Saves + 1,
                  resp |-> redirect("home",
                             IF @.op = "update" THEN "Item updated successfully!" ELSE "")]]
    /\ UNCHANGED <<session, req, resp>>

\* Item stores and sessions the sequential program reaches, from which the two
\* requests start.
ConcStores ==
    LET a == CHOOSE r \in AddRequests : r.now = 0
        b == CHOOSE r \in AddRequests : r.now = 1
        c == CHOOSE r \in ClaimRequests : r.now = 1
        s1 == AddedItems(<< >>, a)
        s2 == AddedItems(s1, b)
    IN {<< >>, s1, s2, ClaimedItems(s2, 2, c), AddedItems(DeleteItems(s2, 1), a)}

InitConc ==
    /\ \E store \in ConcStores :
          files = [f \in {ITEMS_FILE, STAFF_FILE, USERS_FILE} |->
                     CASE f = ITEMS_FILE -> File(TRUE, store)
                       [] f = STAFF_FILE -> File(FALSE, << >>)
                       [] OTHER          -> File(TRUE, UsersData)]
    /\ session \in {EmptyDict, LoginSession(EmptyDict, UsersData[2])}
    /\ req = Request("", "", 0, EmptyDict)
    /\ resp = PlainText("", 0)
    /\ thr = [t \in Threads |-> Idle]

NextConc ==
    \/ \E t \in Threads, r \in AddRequests : BeginAdd(t, r)
    \/ \E t \in Threads, k \in ItemIds, r \in UpdateRequests : BeginUpdate(t, k, r)
    \/ \E t \in Threads, k \in ItemIds, r \in ClaimRequests : BeginClaim(t, k, r)
    \/ \E t \in Threads, k \in ItemIds : BeginDelete(t, k)
    \/ \E t \in Threads : Finish(t)

SpecConc == InitConc /\ [][NextConc]_vars

(* ------------------------------------------------------------- properties *)
\* Every action sets req to the request it handled, so on a step that changes
\* the state req' names the handler that ran and its inputs, and resp' is its
\* response.
Items == load_items

ContentRoutes ==
    {"/", "/add", "/update", "/claim", "/delete", "/staff", "/staff/add",
     "/admin", "/admin/items"}

\* The routes whose handler starts with the "user_id" not in session check.
GatedRoutes == {"/", "/add", "/update", "/claim", "/delete", "/staff", "/staff/add"}

\* The session holds neither a user identifier nor a role.
NoIdentity(s) == "user_id" \notin DOMAIN s /\ "user_role" \notin DOMAIN s

HasId(items, k) == \E i \in DOMAIN items : items[i]["id"] = k

RemoveAt(s, p) == SubSeq(s, 1, p - 1) \o SubSeq(s, p + 1, Len(s))

\* The student identifier of the last login POST matches no user record.
Unmatched(student_id) ==
    \A i \in DOMAIN load_json(USERS_FILE) :
        str(DictGet(load_json(USERS_FILE)[i], "student_id", [t |-> "none"])) # student_id

\* C1: a request to a content route made while the session holds no user
\* identifier is answered with a redirect to the login route.
C1_ContentRoutesRedirectToLogin ==
    (req.route \in ContentRoutes /\ ~LoggedIn)
        => (resp.kind = "redirect" /\ resp.target = "login")

\* C2: no two records of the item store have the same identifier.
C2_UniqueIds ==
    \A i, j \in DOMAIN Items : i # j => Items[i]["id"] # Items[j]["id"]

\* C3: a delete request for identifier k by a logged-in user, when a record
\* with identifier k is stored, removes exactly that one record and leaves
\* the others in place, in order and unchanged.
C3_DeleteRemovesExactlyOne ==
    [][(req'.route = "/delete" /\ LoggedIn /\ HasId(Items, req'.item_id))
         => \E p \in DOMAIN Items :
               /\ Items[p]["id"] = req'.item_id
               /\ Items' = RemoveAt(Items, p)]_vars

\* C4: a claim POST for identifier k, when an Unclaimed item with identifier k
\* is stored, leaves that item Claimed with the claimant fields of the form and
\* its identifier, name, description, category and date-found unchanged, and
\* afterwards no item with identifier k is Unclaimed.
C4_ClaimSetsClaimed ==
    [][(/\ req'.route = "/claim" /\ req'.method = "POST" /\ LoggedIn
        /\ \E i \in DOMAIN Items :
              Items[i]["id"] = req'.item_id /\ Items[i]["status"] = "Unclaimed")
         => /\ \A i \in DOMAIN Items :
                  (Items[i]["id"] = req'.item_id /\ Items[i]["status"] = "Unclaimed")
                    => /\ Items'[i]["status"] = "Claimed"
                       /\ Items'[i]["assisting_staff"] = req'.form.staff
                       /\ Items'[i]["claimer_name"] = req'.form.claimer_name
                       /\ Items'[i]["college"] = req'.form.college
                       /\ Items'[i]["course"] = req'.form.course
                       /\ Items'[i]["year_section"] = req'.form.year_section
                       /\ \A f \in {"id", "name", "description", "category", "date_found"} :
                             Items'[i][f] = Items[i][f]
            /\ \A j \in DOMAIN Items' :
                  Items'[j]["id"] = req'.item_id => Items'[j]["status"] # "Unclaimed"]_vars

\* Where the record at position i is found after a delete of identifier k
\* that did not remove it.
PosAfterDelete(items, i, k) ==
    i - Cardinality({j \in 1 .. (i - 1) : items[j]["id"] = k})

\* C5: every record's status is Unclaimed or Claimed, add_item creates a
\* record as Unclaimed, and a Claimed record stays Claimed over every later
\* request for as long as it is stored.
C5_StatusLifecycle ==
    /\ [](\A i \in DOMAIN Items : Items[i]["status"] \in {"Unclaimed", "Claimed"})
    /\ [][/\ Len(Items') > Len(Items)
               => /\ req'.route = "/add"
                  /\ Len(Items') = Len(Items) + 1
                  /\ Items'[Len(Items')]["status"] = "Unclaimed"
          /\ \A i \in DOMAIN Items :
                Items[i]["status"] = "Claimed"
                  => IF req'.route = "/delete" /\ LoggedIn
                     THEN \/ Items[i]["id"] = req'.item_id
                          \/ Items'[PosAfterDelete(Items, i, req'.item_id)]["status"] = "Claimed"
                     ELSE i \in DOMAIN Items' /\ Items'[i]["status"] = "Claimed"]_vars

\* A Claimed record that was updated survived the delete of another record.
C5_Witness ==
    /\ req.route = "/delete" /\ LoggedIn
    /\ Len(Items) = 1
    /\ Items[1]["status"] = "Claimed"
    /\ Items[1]["description"] = "blue"
    /\ Items[1]["id"] = 2

\* C6 as claimed: after a login POST with an unmatched student identifier the
\* session holds no user identifier and no role, whatever it held before, and
\* the login view is rendered.
C6_FailedLoginUnauthenticated ==
    (req.route = "/login" /\ req.method = "POST" /\ Unmatched(req.form.student_id))
        => /\ NoIdentity(session)
           /\ resp.kind = "render" /\ resp.target = "login.html"

\* C6 as amended: a login POST with an unmatched student identifier leaves the
\* session as it was (unauthenticated stays unauthenticated, logged in stays
\* logged in), renders the login view with the flash message instead of
\* redirecting, and changes no store.
C6_FailedLoginKeepsSession ==
    [][(req'.route = "/login" /\ req'.method = "POST" /\ Unmatched(req'.form.student_id))
         => /\ session' = session
            /\ resp' = render_template("login.html", "Student not found!", EmptyDict)
            /\ files' = files]_vars

\* A failed login by a session that was logged in, and is still.
C6_Witness ==
    /\ req.route = "/login" /\ req.method = "POST"
    /\ Unmatched(req.form.student_id)
    /\ resp.target = "login.html"
    /\ LoggedIn

SessionRole(s) == DictGet(s, "user_role", PyNone)

\* The login POST of req' matched a user.
LoginSucceeds == req'.route = "/login" /\ req'.method = "POST" /\ ~Unmatched(req'.form.student_id)

\* C7: /admin renders the dashboard with its statistics exactly when the
\* session role is "Admin", and otherwise flashes and redirects to home; the
\* session role is set only by a successful login, to the matched user's stored
\* role ("Staff" when the user has none); /admin modifies no store.
C7_AdminPanelOnlyForAdmin ==
    /\ [](req.route = "/admin"
            => resp = IF SessionRole(session) = "Admin"
                      THEN render_template("admin_panel.html", "",
                             [stats |-> Stats(Items, load_staff, load_json(USERS_FILE))])
                      ELSE redirect("home", "Admin access required."))
    /\ [][/\ LoginSucceeds
               => LET users == load_json(USERS_FILE)
                      u == users[MatchUser(users, req'.form.student_id)]
                  IN SessionRole(session') = DictGet(u, "role", "Staff")
          /\ ~LoginSucceeds
               => (SessionRole(session') = "Admin" => SessionRole(session) = "Admin")
          /\ req'.route = "/admin" => (files' = files /\ session' = session)]_vars

\* The dashboard rendered for an Admin, over a non-empty store.
C7_Witness ==
    /\ req.route = "/admin"
    /\ resp.kind = "render"
    /\ SessionRole(session) = "Admin"
    /\ Len(Items) = 2

\* C8: after logout the session holds neither a user identifier nor a role,
\* and stays so until a login succeeds; in that state every login-gated route
\* redirects to login and /admin flashes and redirects to home.
C8_LogoutClearsSession ==
    /\ [](req.route = "/logout" => NoIdentity(session))
    /\ [][(NoIdentity(session) /\ ~LoginSucceeds) => NoIdentity(session')]_vars
    /\ []((NoIdentity(session) /\ req.route \in GatedRoutes)
            => resp = redirect("login", ""))
    /\ []((NoIdentity(session) /\ req.route = "/admin")
            => resp = redirect("home", "Admin access required."))

\* /admin denied to a session that has logged out (the staff store was written
\* by an earlier logged-in request).
C8_Witness ==
    /\ req.route = "/admin"
    /\ NoIdentity(session)
    /\ resp.target = "home"
    /\ files[STAFF_FILE].exists

\* C9: an update or claim request (GET or POST) by a logged-in user for an
\* identifier no stored record has returns 404 "Item not found" and leaves the
\* item store, the staff store and the session unchanged.
C9_NotFound ==
    /\ []((req.route \in {"/update", "/claim"} /\ LoggedIn /\ ~HasId(Items, req.item_id))
            => resp = PlainText("Item not found", 404))
    /\ [][(req'.route \in {"/update", "/claim"} /\ LoggedIn /\ ~HasId(Items, req'.item_id))
            => /\ resp' = PlainText("Item not found", 404)
               /\ files' = files
               /\ session' = session]_vars

\* A 404 for a POST against a store that holds another record.
C9_Witness ==
    /\ req.route \in {"/update", "/claim"} /\ req.method = "POST"
    /\ resp.code = 404
    /\ Len(Items) = 1
    /\ Items[1]["id"] = 2
    /\ req.item_id = 1

\* Both requests have saved, and both had loaded before either saved.
Raced ==
    \A t \in Threads : thr[t].pc = "done" /\ thr[t].saved /\ thr[t].loadedAfter = 0

\* C10: when both requests load before either saves, the store after both
\* have finished is the later saver's mutation applied to the snapshot it
\* loaded, which is also the snapshot the earlier saver loaded; two adds leave
\* one new record, both having computed the same identifier.
C10_LastWriterWins ==
    Raced =>
        LET later == CHOOSE t \in Threads : thr[t].savedAs = 2
            earlier == CHOOSE t \in Threads : thr[t].savedAs = 1
            L == thr[later]
            E == thr[earlier]
        IN /\ Items = Mutation(L.op, L.snapshot, L.item_id, L.r)
           /\ E.snapshot = L.snapshot
           /\ (L.op = "add" /\ E.op = "add")
                => /\ Len(Items) = Len(L.snapshot) + 1
                   /\ E.pending[Len(E.pending)]["id"] = L.pending[Len(L.pending)]["id"]
                   /\ Items[Len(Items)] = NewItem(L.snapshot, L.r.form, L.r.file, L.r.now)

\* Two racing adds of different items have both saved.
C10_Witness ==
    /\ Raced
    /\ thr[1].op = "add" /\ thr[2].op = "add"
    /\ thr[1].r # thr[2].r

====
